---- MODULE Spec2Model ----
(***************************************************************************)
(* Collation validation of master-util (src/src/validation.py, called from *)
(* the `validate` command of src/src/cli.py).                              *)
(*                                                                         *)
(* validate_collations fetches the test strings ordered by collation1 and  *)
(* walks the adjacent pairs of that list, asking the database to compare   *)
(* each pair under collation1 and under collation2.  The database is the   *)
(* environment of the program: its two tables, the sort weights it uses    *)
(* for ORDER BY and the answers it gives to the comparison queries are     *)
(* state of the model.                                                     *)
(*                                                                         *)
(* The other entry points modelled are the validate command of cli.py,     *)
(* performance_benchmark (benchmarks.py), the migration runner (migrate.py *)
(* with Connector.execute_script of db.py) and find_collation_differences; *)
(* each keeps its state in one record variable.  The functions of          *)
(* utils/initialize.py that fill the two tables act on the tables.         *)
(***************************************************************************)
EXTENDS Integers, Sequences, FiniteSets, TLC

VARIABLES
    sample_strings,      \* rows of table sample_strings (column string)
    unicode_characters,  \* rows of table unicode_characters (column char_value)
    weight,              \* collation -> (string -> sort weight): ORDER BY ... COLLATE
    comparator,          \* collation -> (<<s1, s2>> -> answer of the comparison query)
    pc,                  \* position of the validate command
    collation1,          \* arguments of validate_collations
    collation2,
    strings,             \* local: the fetched list
    i,                   \* local: loop index (Python's i; strings[i-1] is 1-based strings[i])
    result1,             \* local: row fetched from query1
    result2,             \* local: row fetched from query2
    verdict,             \* return value of validate_collations
    logged,              \* what the returning branch wrote to the log
    calls,               \* comparison queries executed so far in this run, in order
    prev,                \* outcome of the previous run of the command
    raised,              \* exception that ended the run, "" if none
    fetches,             \* sorted fetches of get_test_data in this run, in order
    bench,               \* state of performance_benchmark
    command,             \* state of the validate command of cli.py
    migrate,             \* state of the migration runner: folder, table, run of up
    find                 \* state of find_collation_differences

vars == <<sample_strings, unicode_characters, weight, comparator, pc, collation1,
          collation2, strings, i, result1, result2, verdict, logged, calls, prev,
          raised, fetches, bench, command, migrate, find>>

\* The state of the validate command and of its database.
validationVars ==
    <<sample_strings, unicode_characters, weight, comparator, pc, collation1,
      collation2, strings, i, result1, result2, verdict, logged, calls, prev,
      raised, fetches>>

\* The state of the other entry points of the repository.
toolVars == <<bench, command, migrate, find>>

----------------------------------------------------------------------------
(* Bounds and fixed data *)

\* Largest corpus drawn for the bounded environments.
MaxCorpus == 3

\* The strings of the docstring examples, in the order the docstring lists them.
DocCorpus == <<"a", "A", "b", "B", "c", "C">>

\* The first n strings of DocCorpus.
Prefix(n) == {DocCorpus[k] : k \in 1..n}

\* A row (equal, less_than) as the comparison query returns it.
Results == BOOLEAN \X BOOLEAN

\* No row fetched yet.
NoResult == <<>>

\* Variant: the function falls off its end after the loop.
ReturnNothing == "none"

\* A query executed whose row has not been fetched yet.
Pending == <<"pending">>

\* Return values of validate_collations, and "none" while it has not returned.
ReturnTrue == "True"
ReturnFalse == "False"
NoVerdict == "none"

\* The two warnings of validate_collations.
OrderWarning == "The collations do not place the strings in the same order."
MismatchWarning == "The collations do not agree on the comparison result."

NoLog == [warning |-> "", s1 |-> "", s2 |-> "", result1 |-> NoResult, result2 |-> NoResult]

NoRun == [collation1 |-> "", collation2 |-> "", verdict |-> NoVerdict,
          strings |-> <<>>, logged |-> NoLog, raised |-> ""]

\* Exceptions that end a run: a failed assert of get_test_data, and an error
\* raised by cursor.execute.
AssertionError == "AssertionError"
DatabaseError == "DatabaseError"

\* performance_benchmark not running.
BenchOff == [pc |-> "off"]

\* The validate command, the migration runner and find_collation_differences
\* not running.
CommandOff == [pc |-> "off"]
MigrateOff == [pc |-> "off"]
FindOff == [pc |-> "off"]

\* Values of the options --port1 (default 3306) and --port2 of validate.
Ports == {3306, 3307}

\* The keyword parameters Connector.__init__(self) accepts: none.
ConnectorParameters == {}

\* Python raises it for a keyword argument the callee does not accept.
TypeError == "TypeError"

\* What a function that ends without a return statement returns.
ReturnsNone == [type |-> "NoneType", value |-> <<>>]

\* Largest number of calls of make_migration, and of the seconds of the
\* clock at which they are made: 1, 2, ...
MaxMigrations == 2

\* Largest number of runs of the up command.
MaxRuns == 2

\* The descriptions make_migration is called with.
Descriptions == {"another", "description", "Description"}

\* The comment lines make_migration writes: "-- {description}" and the line
\* standing for a missing sql.
DescriptionComment ==
    [another |-> "-- another", description |-> "-- description",
     Description |-> "-- Description"]
TodoComment == "-- TODO: Write migration code here"

\* The comment line of the statement create_locale_table builds.
SqlComment == "-- sql"

\* The pieces of text that start with "--".
Comments ==
    {DescriptionComment[d] : d \in Descriptions} \cup {TodoComment, SqlComment}

\* One blank of an indentation.
Blank == " "

\* The blanks in front of the lines of template in make_migration, and of
\* the lines of statement in create_locale_table.
TemplateIndent == 4

\* The file field of a log entry that is about no file.
NoFile == [timestamp |-> 0, slug |-> ""]

\* A file of the migrations folder that is no migration.
OtherFile ==
    [name |-> [timestamp |-> 0, slug |-> "readme"], suffix |-> ".md",
     text |-> <<>>]

\* Largest number of iterations performance_benchmark is called with.
MaxIterations == 2

\* Values of tailoring_size performance_benchmark is called with.
TailoringSizes == {0, 1}

\* All combinations of locale and collation we want to test.
COLLATIONS ==
    <<
    [icu |-> "utf8mb4_icu_en_US_ai_ci",
     mysql |-> "utf8mb4_0900_ai_ci",
     locale |-> "en_US"],
    [icu |-> "utf8mb4_icu_en_US_as_cs",
     mysql |-> "utf8mb4_0900_as_cs",
     locale |-> "en_US"],
    [icu |-> "utf8mb4_icu_nb_NO_ai_ci",
     mysql |-> "utf8mb4_nb_0900_ai_ci",
     locale |-> "nb_NO"],
    [icu |-> "utf8mb4_icu_nb_NO_ai_ci",
     mysql |-> "utf8mb4_nb_0900_ai_ci",
     locale |-> "en_US"],
    [icu |-> "utf8mb4_icu_fr_FR_ai_ci",
     mysql |-> "utf8mb4_0900_ai_ci",
     locale |-> "fr_FR"],
    [icu |-> "utf8mb4_icu_fr_FR_ai_ci",
     mysql |-> "utf8mb4_0900_ai_ci",
     locale |-> "en_US"],
    [icu |-> "utf8mb4_icu_zh_Hans_as_cs",
     mysql |-> "utf8mb4_zh_0900_as_cs",
     locale |-> "zh_Hans"],
    [icu |-> "utf8mb4_icu_zh_Hans_as_cs",
     mysql |-> "utf8mb4_zh_0900_as_cs",
     locale |-> "en_US"],
    [icu |-> "utf8mb4_icu_ja_JP_as_cs",
     mysql |-> "utf8mb4_ja_0900_as_cs",
     locale |-> "ja_JP"],
    [icu |-> "utf8mb4_icu_ja_JP_as_cs",
     mysql |-> "utf8mb4_ja_0900_as_cs",
     locale |-> "en_US"],
    [icu |-> "utf8mb4_icu_ja_JP_as_cs_ks",
     mysql |-> "utf8mb4_ja_0900_as_cs_ks",
     locale |-> "ja_JP"],
    [icu |-> "utf8mb4_icu_ja_JP_as_cs_ks",
     mysql |-> "utf8mb4_ja_0900_as_cs_ks",
     locale |-> "en_US"]
    >>

\* The sizes of dataset we actually test.
DATASET_SIZES == <<100000, 1000000, 10000000>>

\* The named parameters of the INSERT statement of log_benchmark.
LogBindings ==
    {"ICU_FROZEN", "ICU_EXTRA_TAILORING", "collation", "locale", "data_table",
     "data_size", "order_by_asc", "order_by_desc", "equals"}

\* sqlite3 raises it for a named parameter the dict has no key for.
ProgrammingError == "ProgrammingError"

\* A runtime measured by get_runtime.
Runtime == "seconds"

----------------------------------------------------------------------------
(* The database *)

\* SELECT s1 = s2 COLLATE c AS equal, s1 < s2 COLLATE c AS less_than, for a
\* collation that compares by the sort weights w.
CompareByWeight(w, s1, s2) == <<w[s1] = w[s2], w[s1] < w[s2]>>

\* The comparison table of a collation that compares by the sort weights w.
WeightComparator(w) ==
    [p \in (DOMAIN w) \X (DOMAIN w) |-> CompareByWeight(w, p[1], p[2])]

\* A comparison table with no answer fixed yet.
UnansweredComparator(S) == [p \in S \X S |-> NoResult]

\* The rows the comparison query may return for (s1, s2) under collation c:
\* the answer the database already gave for it, or any row the first time.
Answers(c, s1, s2) ==
    IF comparator[c][<<s1, s2>>] = NoResult THEN Results
    ELSE {comparator[c][<<s1, s2>>]}

\* SELECT string FROM sample_strings UNION SELECT char_value FROM unicode_characters
Corpus == sample_strings \cup unicode_characters

\* The lists ORDER BY t.s COLLATE c ASC may return for the rows S: every
\* arrangement of S with ascending weights (rows of equal weight in any order).
OrderedBy(S, w) ==
    {f \in [1..Cardinality(S) -> S] :
        /\ \A k, l \in DOMAIN f : k # l => f[k] # f[l]
        /\ \A k \in 1..(Cardinality(S) - 1) : w[f[k]] <= w[f[k + 1]]}

\* Sort weights over S using the levels 1..k with none skipped.
Weights(S) ==
    {w \in [S -> 1..Cardinality(S)] :
        \A r \in 1..Cardinality(S) :
            (\E s \in S : w[s] >= r) => (\E s \in S : w[s] = r)}

----------------------------------------------------------------------------
(* validate_collations, line by line *)

\* Variant: only the less_than column is read.
LessThanOnly(r2) == r2[2]

\* less_than_or_equal = result2[0] or result2[1]
LessThanOrEqual(r2) == r2[1] \/ r2[2]

\* Variant: the first check is left out.
FirstCheckOmitted(r1, r2) == FALSE

\* Variant: the first check reads the row of the first collation.
FirstCheckOnResult1(r1, r2) == ~(r1[1] \/ r1[2])

\* Variant: the first check passes a row only when its equal column is set.
FirstCheckOnEqualOnly(r1, r2) == ~r2[1]

\* if not less_than_or_equal: the first check of the loop body.
FirstCheckFails(r1, r2) == ~LessThanOrEqual(r2)

\* Variant: the second check is left out.
SecondCheckOmitted(r1, r2) == FALSE

\* Variant: the second check compares the equal columns only.
SecondCheckEqualColumnOnly(r1, r2) == r1[1] # r2[1]

\* Variant: the second check fires only when the first collation says equal
\* and the second does not.
SecondCheckOneSided(r1, r2) == r1[1] /\ ~r2[1]

\* Variant: the second check compares equal of one row with less_than of the other.
SecondCheckCrossColumn(r1, r2) == r1[1] # r2[2]

\* Variant: the second check fires only when the second collation says equal
\* and the first does not.
SecondCheckOtherSided(r1, r2) == r2[1] /\ ~r1[1]

\* Variant: the rows are compared only for a pair the first collation does
\* not call equal.
SecondCheckSkipsTies(r1, r2) == ~r1[1] /\ r1 # r2

\* if result1 != result2: the second check of the loop body.
SecondCheckFails(r1, r2) == r1 # r2

\* Variant: the range stops one index early.
InRangeSkipsLast(k, list) == k < Len(list) - 1

\* Variant: the loop ends after its first pass.
InRangeFirstPairOnly(k, list) == k < Len(list) /\ k = 1

\* for i in range(1, len(strings)): whether the body runs for index k.
InRange(k, list) == k < Len(list)

\* Variant: the second string is read at the index of the first.
SecondOfPairSameIndex(list, k) == list[k]

\* s1 = strings[i - 1]; s2 = strings[i]
FirstOfPair(list, k) == list[k]
SecondOfPair(list, k) == list[k + 1]

\* Variant: the row of the first collation is logged for both collations.
LogEntryFirstRowTwice(w, s1, s2, r1, r2) ==
    [warning |-> w, s1 |-> s1, s2 |-> s2, result1 |-> r1, result2 |-> r1]

\* log.warning(...); log.info of both strings and of both rows.
LogEntry(w, s1, s2, r1, r2) ==
    [warning |-> w, s1 |-> s1, s2 |-> s2, result1 |-> r1, result2 |-> r2]

\* Variant: the list is fetched in the order of the second collation.
FetchCollationSecond == collation2

\* get_test_data(connection1, collation1): the arguments of the fetch.
FetchConnection == "connection1"
FetchCollation == collation1

\* Variant: zero passes the assert.
AssertNotNegative(n) == n >= 0

\* assert count > 0; assert len(strings) > 0
AssertPositive(n) == n > 0

\* validate_collations(connection1, connection2, collation1, collation2) is
\* called with two open connections and the two collations.  A collation name
\* stands for the collation as the server behind its connection implements it.
ValidateCollations(c1, c2) ==
    /\ pc = "idle"
    /\ collation1' = c1
    /\ collation2' = c2
    /\ pc' = "fetch"
    /\ UNCHANGED <<sample_strings, unicode_characters, weight, comparator, strings, i,
                   result1, result2, verdict, logged, calls, prev, raised, fetches>>

\* The call, made by a caller the model does not follow.
Validate(c1, c2) ==
    /\ ValidateCollations(c1, c2)
    /\ UNCHANGED toolVars

\* Variant: the fetch deletes the rows it has read from sample_strings.
GetTestDataConsuming ==
    /\ pc = "fetch"
    /\ Corpus # {}
    /\ \E list \in OrderedBy(Corpus, weight[collation1]) :
        /\ strings' = list
        /\ fetches' = Append(fetches, [connection |-> "connection1",
                                       collation |-> collation1, rows |-> list])
        /\ i' = 1
        /\ IF 1 < Len(list)
           THEN pc' = "query1" /\ verdict' = verdict
           ELSE pc' = "done" /\ verdict' = "True"
    /\ sample_strings' = {}
    /\ UNCHANGED <<unicode_characters, weight, comparator, collation1,
                   collation2, result1, result2, logged, calls, prev, raised, toolVars>>

\* strings = get_test_data(connection1, collation1), then the loop is entered:
\* with no pair to compare the function returns True at once.
GetTestData ==
    /\ pc = "fetch"
    /\ AssertPositive(Cardinality(sample_strings))
    /\ AssertPositive(Cardinality(unicode_characters))
    /\ \E list \in OrderedBy(Corpus, weight[FetchCollation]) :
        /\ AssertPositive(Len(list))
        /\ strings' = list
        /\ fetches' = Append(fetches, [connection |-> FetchConnection,
                                       collation |-> FetchCollation,
                                       rows |-> list])
        /\ i' = 1
        /\ IF InRange(1, list)
           THEN pc' = "query1" /\ verdict' = verdict
           ELSE pc' = "done" /\ verdict' = ReturnTrue
    /\ UNCHANGED <<sample_strings, unicode_characters, weight, comparator, collation1,
                   collation2, result1, result2, logged, calls, prev, raised, toolVars>>

\* connection1.cursor.execute(query1, (s1, s2, s1, s2)); result1 = fetchone()
Query1 ==
    /\ pc = "query1"
    /\ LET s1 == FirstOfPair(strings, i)
           s2 == SecondOfPair(strings, i)
       IN \E r \in Answers(collation1, s1, s2) :
            /\ result1' = r
            /\ comparator' = [comparator EXCEPT ![collation1][<<s1, s2>>] = r]
            /\ calls' = Append(calls, [at |-> i, collation |-> collation1,
                                       s1 |-> s1, s2 |-> s2, result |-> r])
    /\ pc' = "query2"
    /\ UNCHANGED <<sample_strings, unicode_characters, weight, collation1, collation2,
                   strings, i, result2, verdict, logged, prev, raised, fetches, toolVars>>

\* connection2.cursor.execute(query2, (s1, s2, s1, s2)); result2 = fetchone()
Query2 ==
    /\ pc = "query2"
    /\ LET s1 == FirstOfPair(strings, i)
           s2 == SecondOfPair(strings, i)
       IN \E r \in Answers(collation2, s1, s2) :
            /\ result2' = r
            /\ comparator' = [comparator EXCEPT ![collation2][<<s1, s2>>] = r]
            /\ calls' = Append(calls, [at |-> i, collation |-> collation2,
                                       s1 |-> s1, s2 |-> s2, result |-> r])
    /\ pc' = "check"
    /\ UNCHANGED <<sample_strings, unicode_characters, weight, collation1, collation2,
                   strings, i, result1, verdict, logged, prev, raised, fetches, toolVars>>

\* The two checks on the fetched rows, and the step to the next index.
Check ==
    /\ pc = "check"
    /\ LET s1 == FirstOfPair(strings, i)
           s2 == SecondOfPair(strings, i)
       IN IF FirstCheckFails(result1, result2)
          THEN /\ logged' = LogEntry(OrderWarning, s1, s2, result1, result2)
               /\ verdict' = ReturnFalse
               /\ pc' = "done"
               /\ i' = i
          ELSE IF SecondCheckFails(result1, result2)
          THEN /\ logged' = LogEntry(MismatchWarning, s1, s2, result1, result2)
               /\ verdict' = ReturnFalse
               /\ pc' = "done"
               /\ i' = i
          ELSE /\ logged' = logged
               /\ IF InRange(i + 1, strings)
                  THEN pc' = "query1" /\ verdict' = verdict /\ i' = i + 1
                  ELSE pc' = "done" /\ verdict' = ReturnTrue /\ i' = i
    /\ UNCHANGED <<sample_strings, unicode_characters, weight, comparator, collation1,
                   collation2, strings, result1, result2, calls, prev, raised, fetches,
                   toolVars>>

\* validate_collations has returned: the caller has the verdict, the locals
\* of the call are gone and the function can be called again.
Finish ==
    /\ pc = "done"
    /\ prev' = [collation1 |-> collation1, collation2 |-> collation2,
                verdict |-> verdict, strings |-> <<>>, logged |-> NoLog,
                raised |-> raised]
    /\ pc' = "idle"
    /\ collation1' = ""
    /\ collation2' = ""
    /\ strings' = <<>>
    /\ i' = 0
    /\ result1' = NoResult
    /\ result2' = NoResult
    /\ verdict' = NoVerdict
    /\ logged' = NoLog
    /\ calls' = <<>>
    /\ fetches' = <<>>
    /\ UNCHANGED <<sample_strings, unicode_characters, weight, comparator, raised, toolVars>>

\* The same end of the call, the observer also keeping the list the run
\* fetched and what it logged.
FinishRemembering ==
    /\ pc = "done"
    /\ prev' = [collation1 |-> collation1, collation2 |-> collation2,
                verdict |-> verdict, strings |-> strings, logged |-> logged,
                raised |-> raised]
    /\ pc' = "idle"
    /\ collation1' = ""
    /\ collation2' = ""
    /\ strings' = <<>>
    /\ i' = 0
    /\ result1' = NoResult
    /\ result2' = NoResult
    /\ verdict' = NoVerdict
    /\ logged' = NoLog
    /\ calls' = <<>>
    /\ fetches' = <<>>
    /\ UNCHANGED <<sample_strings, unicode_characters, weight, comparator, raised, toolVars>>

\* get_test_data raises: a table is empty, or the fetched list is.
GetTestDataFails ==
    /\ pc = "fetch"
    /\ \/ ~AssertPositive(Cardinality(sample_strings))
       \/ ~AssertPositive(Cardinality(unicode_characters))
       \/ \E list \in OrderedBy(Corpus, weight[FetchCollation]) :
              ~AssertPositive(Len(list))
    /\ raised' = AssertionError
    /\ pc' = "failed"
    /\ UNCHANGED <<sample_strings, unicode_characters, weight, comparator, collation1,
                   collation2, strings, i, result1, result2, verdict, logged, calls,
                   prev, fetches, toolVars>>

\* Variant: the error of query1 is logged and the run goes on.
Query1FailureSkipped ==
    /\ pc = "query1"
    /\ calls' = Append(calls, [at |-> i, collation |-> collation1,
                               s1 |-> FirstOfPair(strings, i),
                               s2 |-> SecondOfPair(strings, i), result |-> NoResult])
    /\ pc' = "query2"
    /\ UNCHANGED <<sample_strings, unicode_characters, weight, comparator, collation1,
                   collation2, strings, i, result1, result2, verdict, logged, prev,
                   raised, fetches, toolVars>>

\* connection1.cursor.execute(query1, ...) raises: nothing catches it, the run ends.
Query1Fails ==
    /\ pc = "query1"
    /\ calls' = Append(calls, [at |-> i, collation |-> collation1,
                               s1 |-> FirstOfPair(strings, i),
                               s2 |-> SecondOfPair(strings, i), result |-> NoResult])
    /\ raised' = DatabaseError
    /\ pc' = "failed"
    /\ UNCHANGED <<sample_strings, unicode_characters, weight, comparator, collation1,
                   collation2, strings, i, result1, result2, verdict, logged, prev,
                   fetches, toolVars>>

\* connection2.cursor.execute(query2, ...) raises: nothing catches it, the run ends.
Query2Fails ==
    /\ pc = "query2"
    /\ calls' = Append(calls, [at |-> i, collation |-> collation2,
                               s1 |-> FirstOfPair(strings, i),
                               s2 |-> SecondOfPair(strings, i), result |-> NoResult])
    /\ raised' = DatabaseError
    /\ pc' = "failed"
    /\ UNCHANGED <<sample_strings, unicode_characters, weight, comparator, collation1,
                   collation2, strings, i, result1, result2, verdict, logged, prev,
                   fetches, toolVars>>

\* An exception has left validate_collations: nothing in the function catches
\* it, the caller has the error instead of a return value, the locals of the
\* call are gone and the function can be called again.
FinishRaised ==
    /\ pc = "failed"
    /\ prev' = [collation1 |-> collation1, collation2 |-> collation2,
                verdict |-> NoVerdict, strings |-> <<>>, logged |-> NoLog,
                raised |-> raised]
    /\ pc' = "idle"
    /\ collation1' = ""
    /\ collation2' = ""
    /\ strings' = <<>>
    /\ i' = 0
    /\ result1' = NoResult
    /\ result2' = NoResult
    /\ verdict' = NoVerdict
    /\ logged' = NoLog
    /\ calls' = <<>>
    /\ raised' = ""
    /\ fetches' = <<>>
    /\ UNCHANGED <<sample_strings, unicode_characters, weight, comparator, toolVars>>

----------------------------------------------------------------------------
(* The two round trips of the loop body, execute and fetchone apart *)

\* connection1.cursor.execute(query1, (s1, s2, s1, s2))
Execute1 ==
    /\ pc = "query1"
    /\ calls' = Append(calls, [at |-> i, collation |-> collation1,
                               s1 |-> FirstOfPair(strings, i),
                               s2 |-> SecondOfPair(strings, i), result |-> Pending])
    /\ pc' = "fetchone1"
    /\ UNCHANGED <<sample_strings, unicode_characters, weight, comparator, collation1,
                   collation2, strings, i, result1, result2, verdict, logged, prev,
                   raised, fetches, toolVars>>

\* Variant: the row of query1 is left on the connection, to be read later.
Fetchone1Deferred ==
    /\ pc = "fetchone1"
    /\ pc' = "query2"
    /\ UNCHANGED <<sample_strings, unicode_characters, weight, comparator, collation1,
                   collation2, strings, i, result1, result2, verdict, logged, calls,
                   prev, raised, fetches, toolVars>>

\* result1 = connection1.cursor.fetchone()
Fetchone1 ==
    /\ pc = "fetchone1"
    /\ LET q == calls[Len(calls)]
       IN \E r \in Answers(q.collation, q.s1, q.s2) :
            /\ result1' = r
            /\ comparator' = [comparator EXCEPT ![q.collation][<<q.s1, q.s2>>] = r]
            /\ calls' = [calls EXCEPT ![Len(calls)].result = r]
    /\ pc' = "query2"
    /\ UNCHANGED <<sample_strings, unicode_characters, weight, collation1, collation2,
                   strings, i, result2, verdict, logged, prev, raised, fetches,
                   toolVars>>

\* connection2.cursor.execute(query2, (s1, s2, s1, s2))
Execute2 ==
    /\ pc = "query2"
    /\ calls' = Append(calls, [at |-> i, collation |-> collation2,
                               s1 |-> FirstOfPair(strings, i),
                               s2 |-> SecondOfPair(strings, i), result |-> Pending])
    /\ pc' = "fetchone2"
    /\ UNCHANGED <<sample_strings, unicode_characters, weight, comparator, collation1,
                   collation2, strings, i, result1, result2, verdict, logged, prev,
                   raised, fetches, toolVars>>

\* result2 = connection2.cursor.fetchone()
Fetchone2 ==
    /\ pc = "fetchone2"
    /\ LET q == calls[Len(calls)]
       IN \E r \in Answers(q.collation, q.s1, q.s2) :
            /\ result2' = r
            /\ comparator' = [comparator EXCEPT ![q.collation][<<q.s1, q.s2>>] = r]
            /\ calls' = [calls EXCEPT ![Len(calls)].result = r]
    /\ pc' = "check"
    /\ UNCHANGED <<sample_strings, unicode_characters, weight, collation1, collation2,
                   strings, i, result1, verdict, logged, prev, raised, fetches,
                   toolVars>>

----------------------------------------------------------------------------
(* The tables of the test strings: utils/initialize.py *)

\* The characters of the strings that may stand in the two tables.
Spelling ==
    [a  |-> <<"a">>, A |-> <<"A">>, b |-> <<"b">>,
     aa |-> <<"a", "a">>, ab |-> <<"a", "b">>,
     ba |-> <<"b", "a">>, bb |-> <<"b", "b">>]

\* alphabet of create_sample_strings_table, cut to its first two letters.
Alphabet == <<"a", "b">>

\* The characters create_unicode_tuples lists, cut to the strings of one
\* character.
Characters == {s \in DOMAIN Spelling : Len(Spelling[s]) = 1}

\* i + j
Concatenation(x, y) == CHOOSE s \in DOMAIN Spelling : Spelling[s] = <<x, y>>

\* strings, as the two loops over alphabet fill it.
SampleStrings ==
    {Concatenation(Alphabet[m], Alphabet[n]) : m, n \in DOMAIN Alphabet}

\* The sort weight of a string under a collation that gives its characters
\* the weights w: the first character decides, then the second, and a string
\* that ends sorts before the strings it begins.
StringWeight(w, s) ==
    LET base == Cardinality(DOMAIN w) + 1
    IN w[Spelling[s][1]] * base
          + (IF Len(Spelling[s]) > 1 THEN w[Spelling[s][2]] ELSE 0)

\* No call of validate_collations is under way.
BetweenRuns == pc \in {"idle", "done", "failed"}

\* create_unicode_table(conn): the table is dropped, created and filled with
\* one INSERT per character; an INSERT the server refuses is caught and the
\* character left out; the rows are committed at the end.
CreateUnicodeTable ==
    /\ BetweenRuns
    /\ unicode_characters' \in SUBSET Characters
    /\ UNCHANGED <<sample_strings, weight, comparator, pc, collation1, collation2,
                   strings, i, result1, result2, verdict, logged, calls, prev,
                   raised, fetches, toolVars>>

\* create_sample_strings_table(conn): the table is dropped, created and filled
\* with one INSERT per string, the rows committed at the end.
CreateSampleStringsTable ==
    /\ BetweenRuns
    /\ sample_strings' = SampleStrings
    /\ UNCHANGED <<unicode_characters, weight, comparator, pc, collation1,
                   collation2, strings, i, result1, result2, verdict, logged, calls,
                   prev, raised, fetches, toolVars>>

\* create_sample_strings_table(conn), an INSERT raising: nothing catches the
\* error and the rows inserted are not committed; the table, dropped and
\* created, is left without a row.
CreateSampleStringsTableFails ==
    /\ BetweenRuns
    /\ sample_strings' = {}
    /\ UNCHANGED <<unicode_characters, weight, comparator, pc, collation1,
                   collation2, strings, i, result1, result2, verdict, logged, calls,
                   prev, raised, fetches, toolVars>>

\* prepare_validity_tests(), the valid part of the command init:
\* create_unicode_table and then create_sample_strings_table, which may raise.
PrepareValidityTests ==
    /\ BetweenRuns
    /\ unicode_characters' \in SUBSET Characters
    /\ sample_strings' \in {SampleStrings, {}}
    /\ UNCHANGED <<weight, comparator, pc, collation1, collation2, strings, i,
                   result1, result2, verdict, logged, calls, prev, raised, fetches,
                   toolVars>>

----------------------------------------------------------------------------
(* The validate command of cli.py *)

\* validate(port1, port2, collation1, collation2) is entered.
ValidateCommand(port1, port2, c1, c2) ==
    /\ command.pc = "off"
    /\ command' = [pc |-> "connect",
                   port1 |-> port1, port2 |-> port2,
                   collation1 |-> c1, collation2 |-> c2,
                   opened |-> <<>>, closed |-> <<>>,
                   success |-> NoVerdict, reported |-> NoVerdict,
                   raised |-> ""]
    /\ UNCHANGED <<validationVars, bench, migrate, find>>

\* connection1 = Connector(port=port1); connection2 = Connector(port=port2)
OpenConnections ==
    /\ command.pc = "connect"
    /\ IF {"port"} \subseteq ConnectorParameters
       THEN command' = [command EXCEPT
                          !.opened = <<[name |-> "connection1", port |-> command.port1],
                                       [name |-> "connection2", port |-> command.port2]>>,
                          !.pc = "validate"]
       ELSE command' = [command EXCEPT !.raised = TypeError, !.pc = "failed"]
    /\ UNCHANGED <<validationVars, bench, migrate, find>>

\* validate_collations(connection1, connection2, collation1, collation2) is
\* called: its steps are those of validate_collations above.
CallValidateCollations ==
    /\ command.pc = "validate"
    /\ ValidateCollations(command.collation1, command.collation2)
    /\ command' = [command EXCEPT !.pc = "validating"]
    /\ UNCHANGED <<bench, migrate, find>>

\* success = ...: validate_collations has returned its verdict.
ValidateCollationsReturns ==
    /\ command.pc = "validating"
    /\ pc = "done"
    /\ command' = [command EXCEPT !.success = verdict, !.pc = "close"]
    /\ UNCHANGED <<validationVars, bench, migrate, find>>

\* validate_collations has raised: nothing in validate catches the error, the
\* command ends at this line with both connections open.
ValidateCollationsRaises ==
    /\ command.pc = "validating"
    /\ pc = "failed"
    /\ command' = [command EXCEPT !.raised = raised, !.pc = "failed"]
    /\ UNCHANGED <<validationVars, bench, migrate, find>>

\* connection1.close(); connection2.close()
CloseConnections ==
    /\ command.pc = "close"
    /\ command' = [command EXCEPT !.closed = <<"connection1", "connection2">>,
                                  !.pc = "report"]
    /\ UNCHANGED <<validationVars, bench, migrate, find>>

\* log.info(f"Validity test success: {success}") and the line after it.
ReportSuccess ==
    /\ command.pc = "report"
    /\ command' = [command EXCEPT !.reported = command.success, !.pc = "end"]
    /\ UNCHANGED <<validationVars, bench, migrate, find>>

----------------------------------------------------------------------------
(* The migration runner: migrate.py and Connector.execute_script *)

\* A file text is the sequence of its pieces: blanks, comment lines, line
\* breaks, SQL words and the character ";".

\* A line of a text: the number of blanks it starts with and the pieces after
\* them.
Line(indent, content) == [indent |-> indent, content |-> content]

\* The sql argument of make_migration: None, or the lines of a text.  The
\* texts are one statement, two statements on two lines that start at the
\* margin, and the statement create_locale_table builds (an empty first line,
\* the comment and the statement indented as the source is, a last line of
\* blanks).
MigrationSql ==
    {[given |-> FALSE, lines |-> <<>>],
     [given |-> TRUE, lines |-> <<Line(0, <<"CREATE", ";">>)>>],
     [given |-> TRUE, lines |-> <<Line(0, <<"CREATE", ";">>),
                                  Line(0, <<"INSERT", ";">>)>>],
     [given |-> TRUE, lines |-> <<Line(0, <<>>),
                                  Line(TemplateIndent, <<SqlComment>>),
                                  Line(TemplateIndent, <<"CREATE", ";">>),
                                  Line(TemplateIndent, <<>>)>>]}

\* slugify, on the descriptions of Descriptions: lower case, nothing else to
\* change.  The timestamp in front of the description is left as it is.
Slugify ==
    [another |-> "another", description |-> "description",
     Description |-> "description"]

\* The name of the file make_migration writes, without its suffix.
Filename(timestamp, description) ==
    [timestamp |-> timestamp, slug |-> Slugify[description]]

\* The position of a slug in the order of Python strings.
SlugOrder == [another |-> 1, description |-> 2]

\* a < b for two file names: the timestamps are of one width, so the
\* earlier timestamp is the smaller string, and with the same timestamp the
\* slugs decide.
Precedes(a, b) ==
    \/ a.timestamp < b.timestamp
    \/ a.timestamp = b.timestamp /\ SlugOrder[a.slug] < SlugOrder[b.slug]

\* The lines a text is put in place of {sql} with: the first goes on the line
\* of the placeholder, after its blanks.
Inline(indent, lines) ==
    [n \in DOMAIN lines |->
        IF n = 1 THEN Line(indent + lines[n].indent, lines[n].content)
        ELSE lines[n]]

\* template, line by line, as the f-string of make_migration gives it.
Template(description, sql) ==
    <<Line(0, <<>>),
      Line(TemplateIndent, <<DescriptionComment[description]>>),
      Line(0, <<>>),
      Line(TemplateIndent, <<"BEGIN", ";">>),
      Line(0, <<>>)>>
    \o Inline(TemplateIndent,
              IF sql.given THEN sql.lines ELSE <<Line(0, <<TodoComment>>)>>)
    \o <<Line(0, <<>>),
         Line(TemplateIndent, <<"COMMIT", ";">>),
         Line(TemplateIndent, <<>>)>>

\* The smallest number of a set of numbers.
Min(S) == CHOOSE m \in S : \A n \in S : m <= n

\* A line without a character.
EmptyLine(line) == line.indent = 0 /\ line.content = <<>>

\* while lines and not lines[-1]: lines.pop()
RECURSIVE DropLastEmpty(_)
DropLastEmpty(lines) ==
    IF lines # <<>> /\ EmptyLine(lines[Len(lines)])
    THEN DropLastEmpty(SubSeq(lines, 1, Len(lines) - 1))
    ELSE lines

\* while lines and not lines[0]: lines.pop(0)
RECURSIVE DropFirstEmpty(_)
DropFirstEmpty(lines) ==
    IF lines # <<>> /\ EmptyLine(lines[1])
    THEN DropFirstEmpty(Tail(lines))
    ELSE lines

\* inspect.cleandoc: the margin is the smallest indentation of the lines
\* after the first that hold more than blanks; the first line loses its
\* blanks, the others lose the margin; empty lines at both ends are dropped.
Cleandoc(lines) ==
    LET margins == {lines[n].indent :
                       n \in {m \in 2..Len(lines) : lines[m].content # <<>>}}
        unindented ==
            [n \in DOMAIN lines |->
                IF n = 1 THEN Line(0, lines[n].content)
                ELSE IF margins = {} THEN lines[n]
                ELSE IF lines[n].indent <= Min(margins)
                     THEN Line(0, lines[n].content)
                     ELSE Line(lines[n].indent - Min(margins), lines[n].content)]
    IN DropFirstEmpty(DropLastEmpty(unindented))

\* "\n".join(lines), in pieces.
RECURSIVE Join(_)
Join(lines) ==
    IF lines = <<>> THEN <<>>
    ELSE [k \in 1..lines[1].indent |-> Blank] \o lines[1].content
         \o (IF Len(lines) = 1 THEN <<>> ELSE <<"\n">> \o Join(Tail(lines)))

\* output = inspect.cleandoc(template): the text make_migration writes.
MigrationText(description, sql) == Join(Cleandoc(Template(description, sql)))

\* text.split(";"): the pieces between the separators, empty ones kept.
RECURSIVE Split(_, _)
Split(text, piece) ==
    IF text = <<>> THEN <<piece>>
    ELSE IF Head(text) = ";" THEN <<piece>> \o Split(Tail(text), <<>>)
    ELSE Split(Tail(text), Append(piece, Head(text)))

\* x.startswith("--")
StartsWithComment(x) == x # <<>> /\ x[1] \in Comments

\* sql = [x for x in file.read().split(";") if not x.startswith("--")]
ScriptCommands(text) ==
    SelectSeq(Split(text, <<>>), LAMBDA x : ~StartsWithComment(x))

\* Variant: the names are taken in descending order.
SortedDescending(names) ==
    CHOOSE list \in [1..Cardinality(names) -> names] :
        \A k, l \in DOMAIN list : k < l => Precedes(list[l], list[k])

\* migrations.sort(): the names in ascending order.
Sorted(names) ==
    CHOOSE list \in [1..Cardinality(names) -> names] :
        \A k, l \in DOMAIN list : k < l => Precedes(list[k], list[l])

\* Variant: no migration counts as applied.
NeverApplied(migration, applied_migrations) == FALSE

\* migration in applied_migrations
AlreadyApplied(migration, applied_migrations) ==
    \E n \in DOMAIN applied_migrations : applied_migrations[n] = migration

\* The file of the folder with the given name.
FileNamed(folder, name) == CHOOSE f \in folder : f.name = name

\* [m for m in os.listdir(migrations_folder) if m.endswith(".sql")]
Listed(folder) == {f.name : f \in {g \in folder : g.suffix = ".sql"}}

\* The runs of up started so far.
Started(log) == {n \in DOMAIN log : log[n].op = "up"}

\* The migrations folder and the database before any command of migrate.py
\* has run: a folder without migrations, no migrations table.  pc is the
\* position of up, raised the last error a run of up has raised, made the
\* number of calls of make_migration.
MigrateIdle(folder) ==
    [pc |-> "idle", folder |-> folder, made |-> 0, created |-> FALSE,
     table |-> <<>>, log |-> <<>>, runs |-> 0, migrations |-> <<>>,
     applied_migrations |-> <<>>, k |-> 0, commands |-> <<>>, raised |-> ""]

\* migrate.py init, run between two runs of up: CREATE TABLE IF NOT EXISTS
\* creates the migrations table, empty, and leaves an existing one alone.
InitMigrations ==
    /\ migrate.pc \in {"idle", "failed"}
    /\ migrate' = [migrate EXCEPT !.created = TRUE]
    /\ UNCHANGED <<validationVars, bench, command, find>>

\* make_migration(description, sql), run between two runs of up: the file
\* named by the second of the clock and the description is written, in place
\* of a file of that name if there is one.
MakeMigration(timestamp, description, sql) ==
    /\ migrate.pc \in {"idle", "failed"}
    /\ migrate.made < MaxMigrations
    /\ LET file == [name |-> Filename(timestamp, description),
                    suffix |-> ".sql",
                    text |-> MigrationText(description, sql)]
       IN migrate' = [migrate EXCEPT
                        !.folder = {f \in @ : f.name # file.name} \cup {file},
                        !.made = @ + 1]
    /\ UNCHANGED <<validationVars, bench, command, find>>

\* up, to the loop: the .sql files sorted, the applied migrations read.  The
\* SELECT raises when init has not created the table.  A run may follow a run
\* that raised.
Up ==
    /\ migrate.pc \in {"idle", "failed"}
    /\ Cardinality(Started(migrate.log)) < MaxRuns
    /\ IF migrate.created
       THEN migrate' = [migrate EXCEPT
                          !.migrations = Sorted(Listed(migrate.folder)),
                          !.applied_migrations = migrate.table,
                          !.k = 1,
                          !.log = Append(@, [op |-> "up", file |-> NoFile,
                                             command |-> <<>>]),
                          !.pc = "loop"]
       ELSE migrate' = [migrate EXCEPT
                          !.migrations = Sorted(Listed(migrate.folder)),
                          !.log = Append(@, [op |-> "up", file |-> NoFile,
                                             command |-> <<>>]),
                          !.raised = ProgrammingError,
                          !.pc = "failed"]
    /\ UNCHANGED <<validationVars, bench, command, find>>

\* if migration in applied_migrations: continue
SkipApplied ==
    /\ migrate.pc = "loop"
    /\ migrate.k <= Len(migrate.migrations)
    /\ AlreadyApplied(migrate.migrations[migrate.k], migrate.applied_migrations)
    /\ migrate' = [migrate EXCEPT !.k = @ + 1]
    /\ UNCHANGED <<validationVars, bench, command, find>>

\* conn.execute_script(path): the file is read and split into commands.
ExecuteScript ==
    /\ migrate.pc = "loop"
    /\ migrate.k <= Len(migrate.migrations)
    /\ ~AlreadyApplied(migrate.migrations[migrate.k], migrate.applied_migrations)
    /\ LET migration == migrate.migrations[migrate.k]
       IN migrate' = [migrate EXCEPT
                        !.commands =
                            ScriptCommands(FileNamed(migrate.folder, migration).text),
                        !.log = Append(@, [op |-> "execute_script",
                                           file |-> migration, command |-> <<>>]),
                        !.pc = "script"]
    /\ UNCHANGED <<validationVars, bench, command, find>>

\* Variant: the failing command is logged as skipped and the script goes on.
ExecuteCommandSkipped ==
    /\ migrate.pc = "script"
    /\ migrate.commands # <<>>
    /\ migrate' = [migrate EXCEPT
                      !.log = Append(@, [op |-> "failed",
                                         file |-> migrate.migrations[migrate.k],
                                         command |-> Head(migrate.commands)]),
                      !.commands = Tail(@)]
    /\ UNCHANGED <<validationVars, bench, command, find>>

\* self.cursor.execute(command) raises: log.error(e); raise e.  Nothing in up
\* catches it.
ExecuteCommandFails ==
    /\ migrate.pc = "script"
    /\ migrate.commands # <<>>
    /\ migrate' = [migrate EXCEPT
                      !.log = Append(@, [op |-> "failed",
                                         file |-> migrate.migrations[migrate.k],
                                         command |-> Head(migrate.commands)]),
                      !.raised = DatabaseError,
                      !.pc = "failed"]
    /\ UNCHANGED <<validationVars, bench, command, find>>

\* for command in sql: self.cursor.execute(command)
ExecuteCommand ==
    /\ migrate.pc = "script"
    /\ migrate.commands # <<>>
    /\ migrate' = [migrate EXCEPT
                      !.log = Append(@, [op |-> "execute",
                                         file |-> migrate.migrations[migrate.k],
                                         command |-> Head(migrate.commands)]),
                      !.commands = Tail(@)]
    /\ UNCHANGED <<validationVars, bench, command, find>>

\* execute_script has returned: INSERT INTO migrations ...; commit()
RecordMigration ==
    /\ migrate.pc = "script"
    /\ migrate.commands = <<>>
    /\ migrate' = [migrate EXCEPT
                      !.table = Append(@, migrate.migrations[migrate.k]),
                      !.log = Append(@, [op |-> "insert",
                                         file |-> migrate.migrations[migrate.k],
                                         command |-> <<>>]),
                      !.k = @ + 1,
                      !.pc = "loop"]
    /\ UNCHANGED <<validationVars, bench, command, find>>

\* The loop is over: the two counts are logged and up returns.
EndUp ==
    /\ migrate.pc = "loop"
    /\ migrate.k > Len(migrate.migrations)
    /\ migrate' = [migrate EXCEPT !.runs = @ + 1, !.pc = "idle"]
    /\ UNCHANGED <<validationVars, bench, command, find>>

----------------------------------------------------------------------------
(* find_collation_differences *)

\* find_collation_differences(connection1, connection2, collation1,
\* collation2) up to its loops: strings = get_test_data(connection1, collation1)
FindCollationDifferences(c1, c2) ==
    /\ find.pc = "off"
    /\ AssertPositive(Cardinality(sample_strings))
    /\ AssertPositive(Cardinality(unicode_characters))
    /\ \E list \in OrderedBy(Corpus, weight[c1]) :
          /\ AssertPositive(Len(list))
          /\ find' = [pc |-> "compare", collation1 |-> c1, collation2 |-> c2,
                      strings |-> list, i |-> 1, j |-> 1,
                      differences |-> <<>>, compared |-> <<>>,
                      returned |-> ReturnsNone]
    /\ UNCHANGED <<validationVars, bench, command, migrate>>

\* The body of the inner loop for strings[i], strings[j] (positions from 1),
\* and the step to the next j, or to the next i with j = i.
CompareStrings ==
    /\ find.pc = "compare"
    /\ find.i <= Len(find.strings)
    /\ LET s1 == find.strings[find.i]
           s2 == find.strings[find.j]
           r1 == comparator[find.collation1][<<s1, s2>>]
           r2 == comparator[find.collation2][<<s1, s2>>]
       IN find' = [find EXCEPT
                     !.differences = IF r1 # r2 THEN Append(@, <<s1, s2, r1, r2>>)
                                     ELSE @,
                     !.compared = Append(@, <<find.i, find.j>>),
                     !.j = IF find.j < Len(find.strings) THEN @ + 1 ELSE find.i + 1,
                     !.i = IF find.j < Len(find.strings) THEN @ ELSE @ + 1]
    /\ UNCHANGED <<validationVars, bench, command, migrate>>

\* The loops are over: batch_size = 1000; pass.  The function ends without a
\* return statement.
FindEnds ==
    /\ find.pc = "compare"
    /\ find.i > Len(find.strings)
    /\ find' = [find EXCEPT !.returned = ReturnsNone, !.pc = "done"]
    /\ UNCHANGED <<validationVars, bench, command, migrate>>

----------------------------------------------------------------------------
(* performance_benchmark *)

\* The configurations of one collation and locale, one per dataset size.
ConfigurationsOf(name, locale, tailoring_size) ==
    [k \in DOMAIN DATASET_SIZES |->
        [collation |-> name,
         locale |-> locale,
         data_table |-> <<"test", locale, DATASET_SIZES[k]>>,
         data_size |-> DATASET_SIZES[k],
         tailoring_size |-> tailoring_size]]

\* for collation in COLLATIONS: ... from entry k on, done holding the
\* collations already added per locale.
RECURSIVE Configurations(_, _, _, _)
Configurations(k, done, configurations, tailoring_size) ==
    IF k > Len(COLLATIONS) THEN configurations
    ELSE LET collation == COLLATIONS[k]
             locale == collation.locale
             addIcu == collation.icu \notin done[locale]
             done1 == IF addIcu
                      THEN [done EXCEPT ![locale] = @ \cup {collation.icu}]
                      ELSE done
             configurations1 ==
                 IF addIcu
                 THEN configurations
                        \o ConfigurationsOf(collation.icu, locale, tailoring_size)
                 ELSE configurations
             addMysql == collation.mysql \notin done1[locale]
             done2 == IF addMysql
                      THEN [done1 EXCEPT ![locale] = @ \cup {collation.mysql}]
                      ELSE done1
             configurations2 ==
                 IF addMysql
                 THEN configurations1
                        \o ConfigurationsOf(collation.mysql, locale, tailoring_size)
                 ELSE configurations1
         IN Configurations(k + 1, done2, configurations2, tailoring_size)

\* test_collation: the three runtimes are stored in the dict it was given, and
\* that dict is returned.
TestCollation(config) ==
    [f \in DOMAIN config \cup {"order_by_asc", "order_by_desc", "equals"} |->
        IF f \in {"order_by_asc", "order_by_desc", "equals"} THEN Runtime
        ELSE config[f]]

\* performance_benchmark(iterations, tailoring_size) up to the loop over the
\* configurations.
PerformanceBenchmark(iterations, tailoring_size) ==
    /\ bench.pc = "off"
    /\ bench' = [pc |-> "config",
                 iterations |-> iterations,
                 configurations |->
                     Configurations(1, [l \in {COLLATIONS[k].locale :
                                                 k \in DOMAIN COLLATIONS} |-> {}],
                                    <<>>, tailoring_size),
                 config |-> 1,
                 i |-> 0,
                 runs |-> <<>>,
                 rows |-> <<>>,
                 raised |-> ""]
    /\ UNCHANGED <<validationVars, command, migrate, find>>

\* for config in configurations: the warm-up run of the next configuration.
WarmUp ==
    /\ bench.pc = "config"
    /\ bench.config <= Len(bench.configurations)
    /\ bench' = [bench EXCEPT
                    !.configurations[bench.config] = TestCollation(@),
                    !.runs = Append(@, [config |-> bench.config, warm_up |-> TRUE]),
                    !.i = 0,
                    !.pc = "iterate"]
    /\ UNCHANGED <<validationVars, command, migrate, find>>

\* for i in range(iterations): result = test_collation(conn, config)
TimedRun ==
    /\ bench.pc = "iterate"
    /\ bench.i < bench.iterations
    /\ bench' = [bench EXCEPT
                    !.configurations[bench.config] = TestCollation(@),
                    !.runs = Append(@, [config |-> bench.config, warm_up |-> FALSE]),
                    !.pc = "log"]
    /\ UNCHANGED <<validationVars, command, migrate, find>>

\* experiment_logger.log_benchmark(result): db.execute(statement, result)
\* binds the named parameters from the keys of result.
LogBenchmark ==
    /\ bench.pc = "log"
    /\ LET result == bench.configurations[bench.config]
       IN IF LogBindings \subseteq DOMAIN result
          THEN bench' = [bench EXCEPT
                           !.rows = Append(@, [b \in LogBindings |-> result[b]]),
                           !.i = @ + 1,
                           !.pc = "iterate"]
          ELSE bench' = [bench EXCEPT !.raised = ProgrammingError, !.pc = "failed"]
    /\ UNCHANGED <<validationVars, command, migrate, find>>

\* The iterations of a configuration are over: completed += 1.
NextConfiguration ==
    /\ bench.pc = "iterate"
    /\ bench.i >= bench.iterations
    /\ bench' = [bench EXCEPT !.config = @ + 1, !.pc = "config"]
    /\ UNCHANGED <<validationVars, command, migrate, find>>

\* The loop over the configurations is over: pbar.close(); conn.close();
\* report_results()
CloseBenchmark ==
    /\ bench.pc = "config"
    /\ bench.config > Len(bench.configurations)
    /\ bench' = [bench EXCEPT !.pc = "closed"]
    /\ UNCHANGED <<validationVars, command, migrate, find>>

----------------------------------------------------------------------------
(* Initial states *)

\* Before the command runs, the migration runner left aside.
InitIdle ==
    /\ pc = "idle"
    /\ collation1 = ""
    /\ collation2 = ""
    /\ strings = <<>>
    /\ i = 0
    /\ result1 = NoResult
    /\ result2 = NoResult
    /\ verdict = NoVerdict
    /\ logged = NoLog
    /\ calls = <<>>
    /\ prev = NoRun
    /\ raised = ""
    /\ fetches = <<>>
    /\ bench = BenchOff
    /\ command = CommandOff
    /\ find = FindOff

\* Before the command runs.
InitCommand ==
    /\ InitIdle
    /\ migrate = MigrateOff

\* A database holding up to MaxCorpus strings and two collations "A" and "B",
\* each a total preorder: it sorts and compares by its weights.
InitOrdered ==
    /\ InitCommand
    /\ \E n \in 1..MaxCorpus :
        /\ sample_strings = Prefix(1)
        /\ unicode_characters = Prefix(n)
        /\ weight \in [{"A", "B"} -> Weights(Prefix(n))]
    /\ comparator = [c \in {"A", "B"} |-> WeightComparator(weight[c])]

\* A database whose comparison queries may answer any row for a pair (the same
\* row every time it is asked again) and whose sorted fetch may return the
\* strings in any order.
InitStub ==
    /\ InitCommand
    /\ \E n \in 1..MaxCorpus :
        /\ sample_strings = Prefix(1)
        /\ unicode_characters = Prefix(n)
        /\ weight = [c \in {"A", "B"} |-> [s \in Prefix(n) |-> 1]]
        /\ comparator = [c \in {"A", "B"} |-> UnansweredComparator(Prefix(n))]

\* The collations of the docstring examples.
\*   c1        = [a = A < b = B < c = C]
\*   c2_first  = [a < A < b < B < c < C]
\*   c2_second = [b = B < a = A < c = C]
\*   c2_third  = [A = a < B = b < C = c]
DocWeights ==
    [c1        |-> [a |-> 1, A |-> 1, b |-> 2, B |-> 2, c |-> 3, C |-> 3],
     c2_first  |-> [a |-> 1, A |-> 2, b |-> 3, B |-> 4, c |-> 5, C |-> 6],
     c2_second |-> [a |-> 2, A |-> 2, b |-> 1, B |-> 1, c |-> 3, C |-> 3],
     c2_third  |-> [a |-> 1, A |-> 1, b |-> 2, B |-> 2, c |-> 3, C |-> 3]]

\* A database holding the six strings of the docstring and its collations.
DocDatabase ==
    /\ sample_strings = Prefix(1)
    /\ unicode_characters = Prefix(Len(DocCorpus))
    /\ weight = DocWeights
    /\ comparator = [c \in DOMAIN DocWeights |-> WeightComparator(DocWeights[c])]

\* A database without a string and without a collation.
EmptyDatabase ==
    /\ sample_strings = {}
    /\ unicode_characters = {}
    /\ weight = <<>>
    /\ comparator = <<>>

\* The command not yet run on the database of the docstring.
InitDoc ==
    /\ InitCommand
    /\ DocDatabase

\* As InitOrdered, the strings named so that collation "A" places them in the
\* order of DocCorpus (any such database is one of these up to the names of
\* its strings); collation "B" is any total preorder.
InitListed ==
    /\ InitOrdered
    /\ \A k \in 1..(Cardinality(Corpus) - 1) :
          weight["A"][DocCorpus[k]] <= weight["A"][DocCorpus[k + 1]]

\* A database whose two tables hold any strings, or none, and whose collations
\* are the first two of the docstring.
InitTables ==
    /\ InitCommand
    /\ sample_strings \in SUBSET Prefix(MaxCorpus)
    /\ unicode_characters \in SUBSET Prefix(MaxCorpus)
    /\ weight = [c \in {"c1", "c2_first"} |->
                    [s \in Prefix(MaxCorpus) |-> DocWeights[c][s]]]
    /\ comparator = [c \in {"c1", "c2_first"} |-> WeightComparator(weight[c])]

\* A database whose two tables hold any characters, or none, before the
\* command init fills them; its collations are the first two of the
\* docstring, sorting every string by the weights of its characters.
InitPrepare ==
    /\ InitCommand
    /\ sample_strings \in SUBSET Characters
    /\ unicode_characters \in SUBSET Characters
    /\ weight = [c \in {"c1", "c2_first"} |->
                    [s \in DOMAIN Spelling |-> StringWeight(DocWeights[c], s)]]
    /\ comparator = [c \in {"c1", "c2_first"} |-> WeightComparator(weight[c])]

----------------------------------------------------------------------------
(* Specifications *)

Init == InitOrdered

Next ==
    \/ \E c1, c2 \in DOMAIN weight : Validate(c1, c2)
    \/ GetTestData
    \/ Query1
    \/ Query2
    \/ Check
    \/ Finish

\* Runs of the command, one after another, on well-ordered collations.
Spec == Init /\ [][Next]_vars

InitScan == InitStub \/ InitDoc

NextScan ==
    \/ \E c1, c2 \in DOMAIN weight : Validate(c1, c2)
    \/ GetTestData
    \/ Query1
    \/ Query2
    \/ Check

\* One run of the command, on arbitrary comparison answers or on the
\* collations of the docstring.
SpecScan == InitScan /\ [][NextScan]_vars

NextRepeat ==
    \/ \E c1, c2 \in DOMAIN weight : Validate(c1, c2)
    \/ GetTestData
    \/ Query1
    \/ Query2
    \/ Check
    \/ FinishRemembering

\* Runs of the command, one after another, on well-ordered collations, each
\* run compared with the one before it.
SpecRepeat == InitListed /\ [][NextRepeat]_vars

InitErrors == InitTables \/ InitStub

NextErrors ==
    \/ \E c1, c2 \in DOMAIN weight : Validate(c1, c2)
    \/ GetTestData
    \/ GetTestDataFails
    \/ Query1
    \/ Query1Fails
    \/ Query2
    \/ Query2Fails
    \/ Check

\* One run of the command on tables that may be empty and with queries that
\* may raise.
SpecErrors == InitErrors /\ [][NextErrors]_vars

NextPrepare ==
    \/ \E c1, c2 \in DOMAIN weight : Validate(c1, c2)
    \/ GetTestData
    \/ GetTestDataFails
    \/ Query1
    \/ Query1Fails
    \/ Query2
    \/ Query2Fails
    \/ Check
    \/ Finish
    \/ FinishRaised
    \/ CreateUnicodeTable
    \/ CreateSampleStringsTable
    \/ CreateSampleStringsTableFails
    \/ PrepareValidityTests

\* Runs of the command, one after another, whether they return or raise, the
\* tables filled again between them.
SpecPrepare == InitPrepare /\ [][NextPrepare]_vars

NextRoundTrips ==
    \/ \E c1, c2 \in DOMAIN weight : Validate(c1, c2)
    \/ GetTestData
    \/ Execute1
    \/ Fetchone1
    \/ Execute2
    \/ Fetchone2
    \/ Check

\* One run of the command, each comparison query a round trip of two steps.
SpecRoundTrips == InitScan /\ [][NextRoundTrips]_vars

InitCli == InitDoc

\* The steps of the command up to the construction of the two connections;
\* the construction raises, the steps after it are never taken.
NextCli ==
    \/ \E port1, port2 \in Ports, c1, c2 \in DOMAIN weight :
          ValidateCommand(port1, port2, c1, c2)
    \/ OpenConnections

\* One run of the validate command.
SpecCli == InitCli /\ [][NextCli]_vars

\* No command of migrate.py has run: the folder holds no migration, the
\* database no migrations table.
InitMigrate ==
    /\ InitIdle
    /\ EmptyDatabase
    /\ migrate \in {MigrateIdle({}), MigrateIdle({OtherFile})}

NextMigrate ==
    \/ InitMigrations
    \/ \E timestamp \in 1..MaxMigrations, description \in Descriptions,
          sql \in MigrationSql :
          MakeMigration(timestamp, description, sql)
    \/ Up
    \/ SkipApplied
    \/ ExecuteScript
    \/ ExecuteCommand
    \/ ExecuteCommandFails
    \/ RecordMigration
    \/ EndUp

\* The migration runner: files are made and up is run, one run after another.
SpecMigrate == InitMigrate /\ [][NextMigrate]_vars

NextFind ==
    \/ \E c1, c2 \in DOMAIN weight : FindCollationDifferences(c1, c2)
    \/ CompareStrings
    \/ FindEnds

\* One call of find_collation_differences on well-ordered collations.
SpecFind == InitListed /\ [][NextFind]_vars

InitBench == InitDoc

NextBench ==
    \/ \E iterations \in 0..MaxIterations, tailoring_size \in TailoringSizes :
          PerformanceBenchmark(iterations, tailoring_size)
    \/ WarmUp
    \/ TimedRun
    \/ LogBenchmark
    \/ NextConfiguration
    \/ CloseBenchmark

\* One call of performance_benchmark.
SpecBench == InitBench /\ [][NextBench]_vars

----------------------------------------------------------------------------
(* Vocabulary of the properties, stated on the answers of the database and on *)
(* the log of comparison queries, not on the checks of the loop body.          *)

Returned == pc = "done"

\* The answers of the database for the k-th adjacent pair of the fetched list.
AnswerA(k) == comparator[collation1][<<strings[k], strings[k + 1]>>]
AnswerB(k) == comparator[collation2][<<strings[k], strings[k + 1]>>]

\* Rows a (under the first collation) and b (under the second) satisfy both
\* requirements: b has equal or less_than set, and a is the same row as b.
RowsPass(a, b) == a \in Results /\ b \in Results /\ (b[1] \/ b[2]) /\ a = b

\* Rows a and b break the monotonicity or the agreement requirement.
RowsFail(a, b) == a \in Results /\ b \in Results /\ (~(b[1] \/ b[2]) \/ a # b)

AdjacentIndices == 1..(Len(strings) - 1)

\* The comparison queries issued for the k-th adjacent pair of the list, the
\* list read from position 1: the (2k-1)-th and the 2k-th query of the run.
QueryA(k) == calls[2 * k - 1]
QueryB(k) == calls[2 * k]

\* Query q was issued on connection/collation c for the strings s1, s2, in
\* that order.
IssuedOn(q, c, s1, s2) == q.collation = c /\ q.s1 = s1 /\ q.s2 = s2

\* The pair at index k was compared under both collations, the first query
\* returning a and the second b.
ComparedAt(k, a, b) ==
    \E m, n \in DOMAIN calls :
        /\ m < n
        /\ calls[m].at = k /\ calls[n].at = k
        /\ calls[m].result = a /\ calls[n].result = b

----------------------------------------------------------------------------
(* C1 *)

\* C1: a completed run returns True exactly when, for every adjacent pair of
\* the fetched list, the row under the second collation has equal or less_than
\* set and the row under the first collation is the same row; every other
\* completed run returns False.
C1_TrueIffEveryAdjacentPairPasses ==
    Returned =>
        /\ verdict \in {ReturnTrue, ReturnFalse}
        /\ verdict = ReturnTrue <=>
              \A k \in AdjacentIndices : RowsPass(AnswerA(k), AnswerB(k))

\* The known-equivalent scenario: the six strings ordered a=A<b=B<c=C, the
\* second collation agreeing on every adjacent pair.
C1_Witness ==
    /\ Returned
    /\ strings = DocCorpus
    /\ collation1 = "c1"
    /\ collation2 = "c2_third"
    /\ verdict = ReturnTrue
    /\ Len(calls) = 10

----------------------------------------------------------------------------
(* C2 *)

\* Both collations return the same row for every pair of positions k < l.
AllPairsAgree ==
    \A k, l \in DOMAIN strings :
        k < l => comparator[collation1][<<strings[k], strings[l]>>]
                   = comparator[collation2][<<strings[k], strings[l]>>]

\* C2: for collations that are total preorders and a list sorted by the first,
\* the adjacent-pair scan returns True exactly when the two collations return
\* the same row for every pair of positions k < l, adjacent or not.
C2_AdjacencySuffices ==
    Returned => (verdict = ReturnTrue <=> AllPairsAgree)

\* A run over three strings, not all equal, under two different collation
\* names, found equivalent: the non-adjacent pair agrees too.
C2_Witness ==
    /\ Returned
    /\ verdict = ReturnTrue
    /\ Len(strings) = 3
    /\ collation1 # collation2
    /\ AnswerA(1) = <<FALSE, TRUE>>
    /\ comparator[collation2][<<strings[1], strings[3]>>] = <<FALSE, TRUE>>

----------------------------------------------------------------------------
(* C3 *)

\* C3: whenever a comparison query of the run returned equal and less_than both
\* set, under either collation, the run ends with the outcome
\* MalformedComparatorResult, neither True nor False.
C3_MalformedRowIsReported ==
    (Returned /\ \E n \in DOMAIN calls : calls[n].result = <<TRUE, TRUE>>)
        => verdict = "MalformedComparatorResult"

----------------------------------------------------------------------------
(* C4 *)

\* C4 as claimed: a run comparing a collation with itself returns True
\* whatever rows its comparison queries returned.
C4_ReflexiveAlwaysTrue ==
    (Returned /\ collation1 = collation2) => verdict = ReturnTrue

\* C4 as amended: a run comparing a collation with itself returns True exactly
\* when no adjacent pair of the fetched list got the row (equal = false,
\* less_than = false) from it; when some pair did, the run returns False at
\* that pair with the warning of the first check.
C4_ReflexiveTrueUnlessReversed ==
    (Returned /\ collation1 = collation2) =>
        /\ verdict = ReturnTrue <=>
              \A k \in AdjacentIndices : AnswerA(k) # <<FALSE, FALSE>>
        /\ verdict = ReturnFalse =>
              /\ logged.warning = OrderWarning
              /\ AnswerA(i) = <<FALSE, FALSE>>

\* A reflexive run over three strings that returned True after four queries.
C4_Witness ==
    /\ Returned
    /\ collation1 = collation2
    /\ Len(strings) = 3
    /\ Len(calls) = 4
    /\ verdict = ReturnTrue

----------------------------------------------------------------------------
(* C5 *)

\* C5: a run with the two collations swapped, over the same rows sorted by the
\* other collation, returns the same value as the run before it.
C5_Symmetry ==
    (Returned /\ prev.verdict # NoVerdict
              /\ prev.collation1 = collation2 /\ prev.collation2 = collation1)
        => verdict = prev.verdict

\* Two collations that order three strings differently: the run (A, B) returned
\* False, and so did the run (B, A) over a differently sorted list.
C5_Witness ==
    /\ Returned
    /\ Len(strings) = 3
    /\ collation1 = "B" /\ collation2 = "A"
    /\ prev.collation1 = "A" /\ prev.collation2 = "B"
    /\ prev.verdict = ReturnFalse
    /\ verdict = ReturnFalse
    /\ \E k \in AdjacentIndices : weight["A"][strings[k]] > weight["A"][strings[k + 1]]

----------------------------------------------------------------------------
(* C6 *)

\* C6: when the run returns False, the logged pair is the adjacent pair at the
\* smallest index whose rows break the monotonicity or the agreement
\* requirement, and every pair at a lower index satisfied both.
C6_LowestIndexReported ==
    (Returned /\ verdict = ReturnFalse) =>
        \E k \in AdjacentIndices :
            /\ RowsFail(AnswerA(k), AnswerB(k))
            /\ \A j \in 1..(k - 1) : RowsPass(AnswerA(j), AnswerB(j))
            /\ logged.s1 = strings[k]
            /\ logged.s2 = strings[k + 1]
            /\ i = k

\* A run that returned False at the second pair of three strings.
C6_Witness ==
    /\ Returned
    /\ verdict = ReturnFalse
    /\ Len(strings) = 3
    /\ i = 2
    /\ logged.s1 = strings[2]
    /\ logged.s2 = strings[3]

----------------------------------------------------------------------------
(* C7 *)

\* C7: once the two rows returned for an adjacent pair break the monotonicity
\* or the agreement requirement, no comparison query is in the log for a pair
\* at a higher index, the next step of the run is its return, and the run has
\* returned False at that pair.
C7_FailFast ==
    \A k \in AdjacentIndices :
        (\E a, b \in Results : ComparedAt(k, a, b) /\ RowsFail(a, b)) =>
            /\ \A n \in DOMAIN calls : calls[n].at <= k
            /\ Len(calls) = 2 * k
            /\ pc \in {"check", "done"}
            /\ Returned => (verdict = ReturnFalse /\ i = k)

\* A run that returned False at the first pair of three strings, with only the
\* two queries of that pair in the log.
C7_Witness ==
    /\ Returned
    /\ verdict = ReturnFalse
    /\ Len(strings) = 3
    /\ i = 1
    /\ Len(calls) = 2

----------------------------------------------------------------------------
(* C8 *)

\* C8: when the query under the second collation returns (equal = false,
\* less_than = false) for the pair being scanned, the run returns False with
\* the warning of the first check, whatever the first collation returned, and
\* logs that pair.
C8_OrderReversedReported ==
    \A k \in AdjacentIndices :
        (Returned /\ \E a \in Results : ComparedAt(k, a, <<FALSE, FALSE>>)) =>
            /\ verdict = ReturnFalse
            /\ logged.warning = OrderWarning
            /\ logged.s1 = strings[k] /\ logged.s2 = strings[k + 1]
            /\ logged.result2 = <<FALSE, FALSE>>
            /\ i = k

\* The known order-reversal scenario: [a, A, b, B, c, C] sorted by a=A<b=B<c=C,
\* the second collation placing b before A; reported at the pair (A, b).
C8_Witness ==
    /\ Returned
    /\ strings = DocCorpus
    /\ collation1 = "c1"
    /\ collation2 = "c2_second"
    /\ verdict = ReturnFalse
    /\ logged = [warning |-> OrderWarning, s1 |-> "A", s2 |-> "b",
                 result1 |-> <<FALSE, TRUE>>, result2 |-> <<FALSE, FALSE>>]
    /\ i = 2

----------------------------------------------------------------------------
(* C9 *)

\* C9: when the rows returned for the pair being scanned differ while the row
\* of the second collation has equal or less_than set, the run returns False
\* with the warning of the second check, never that of the first, and logs
\* that pair with both rows.
C9_MismatchReported ==
    \A k \in AdjacentIndices :
        \A a, b \in Results :
            (Returned /\ ComparedAt(k, a, b) /\ (b[1] \/ b[2]) /\ a # b) =>
                /\ verdict = ReturnFalse
                /\ logged = [warning |-> MismatchWarning,
                             s1 |-> strings[k], s2 |-> strings[k + 1],
                             result1 |-> a, result2 |-> b]
                /\ i = k

\* The known mismatch scenario: the first collation says a = A, the second
\* says a < A.
C9_Witness ==
    /\ Returned
    /\ strings = DocCorpus
    /\ collation1 = "c1"
    /\ collation2 = "c2_first"
    /\ verdict = ReturnFalse
    /\ logged = [warning |-> MismatchWarning, s1 |-> "a", s2 |-> "A",
                 result1 |-> <<TRUE, FALSE>>, result2 |-> <<FALSE, TRUE>>]

----------------------------------------------------------------------------
(* C10 *)

\* C10: with c1 as the first collation, the first docstring example is found
\* not equivalent by the first check of the loop body, the second example is
\* found not equivalent by the second check of the loop body, and the third
\* example is found equivalent.
C10_DocstringExamples ==
    (Returned /\ collation1 = "c1") =>
        /\ collation2 = "c2_first" =>
              (verdict = ReturnFalse /\ logged.warning = OrderWarning)
        /\ collation2 = "c2_second" =>
              (verdict = ReturnFalse /\ logged.warning = MismatchWarning)
        /\ collation2 = "c2_third" => verdict = ReturnTrue

----------------------------------------------------------------------------
(* C11 *)

\* C11: once a list of one string has been fetched the run has returned, its
\* return value is True, and it has issued no comparison query, whatever the
\* two collations are.
C11_SingleStringEquivalent ==
    Len(strings) = 1 =>
        /\ Returned
        /\ verdict = "True"
        /\ calls = <<>>
        /\ logged = NoLog

\* A run of two different collations over a corpus of one string has returned.
C11_Witness ==
    /\ Returned
    /\ Len(strings) = 1
    /\ Corpus = {"a"}
    /\ collation1 # collation2
    /\ calls = <<>>

----------------------------------------------------------------------------
(* C12 *)

\* C12: while the two tables together hold no row, a run never gets past the
\* fetch: get_test_data raises AssertionError, no list is returned, no return
\* value is produced and no comparison query is issued; and every list that
\* get_test_data does return has at least one string.
C12_EmptyCorpusFails ==
    /\ Corpus = {} =>
          /\ pc \in {"idle", "fetch", "failed"}
          /\ pc = "failed" => raised = AssertionError
          /\ verdict = NoVerdict
          /\ fetches = <<>>
          /\ calls = <<>>
    /\ \A n \in DOMAIN fetches : Len(fetches[n].rows) >= 1

\* A run on two empty tables has ended with AssertionError.
C12_Witness ==
    /\ Corpus = {}
    /\ pc = "failed"
    /\ raised = AssertionError
    /\ collation1 # ""

----------------------------------------------------------------------------
(* C13 *)

\* C13: a run over n strings that returns True has issued exactly 2(n - 1)
\* comparison queries: for each adjacent pair, in index order, one under the
\* first collation and then one under the second, both on the strings
\* (strings[k], strings[k + 1]) in that order, and none on any other pair.
C13_TwoQueriesPerAdjacentPair ==
    (Returned /\ verdict = ReturnTrue) =>
        /\ Len(calls) = 2 * (Len(strings) - 1)
        /\ \A k \in AdjacentIndices :
              /\ IssuedOn(QueryA(k), collation1, strings[k], strings[k + 1])
              /\ IssuedOn(QueryB(k), collation2, strings[k], strings[k + 1])

\* A run over three strings returned True after four queries, the third and
\* fourth on the second adjacent pair.
C13_Witness ==
    /\ Returned
    /\ verdict = ReturnTrue
    /\ Len(strings) = 3
    /\ Len(calls) = 4
    /\ calls[3].s1 = strings[2] /\ calls[4].s2 = strings[3]

----------------------------------------------------------------------------
(* C14 *)

\* What a run reports when it returns False: the pair and the two rows.
Reported(entry) == <<entry.s1, entry.s2, entry.result1, entry.result2>>

\* C14 as claimed: a run with the same two collations as the run before it,
\* the tables and the comparators unchanged between them, returns the same
\* value and, when that is False, logs the same pair and the same two rows.
C14_IdenticalVerdictAndPair ==
    (Returned /\ prev.collation1 = collation1 /\ prev.collation2 = collation2) =>
        /\ verdict = prev.verdict
        /\ verdict = ReturnFalse => Reported(logged) = Reported(prev.logged)

\* C14 as amended: such a run returns the same value as the run before it,
\* whichever ascending list each of the two fetches returned; it logs the
\* same warning, pair and rows when its fetch returned the list the earlier
\* fetch returned.  When the two fetches returned the rows the first
\* collation ties in different orders, the pairs logged may differ.
C14_SameVerdictSamePairOnSameList ==
    (Returned /\ prev.collation1 = collation1 /\ prev.collation2 = collation2) =>
        /\ verdict = prev.verdict
        /\ prev.strings = strings => logged = prev.logged

\* Two runs in a row of the same collations over the same three rows, both
\* returning False: the second fetch returned the tied rows in another order
\* and the second run logged another pair than the first.
C14_Witness ==
    /\ Returned
    /\ prev.collation1 = collation1 /\ prev.collation2 = collation2
    /\ collation1 # collation2
    /\ Len(strings) = 3
    /\ {prev.strings[k] : k \in DOMAIN prev.strings} = Corpus
    /\ prev.strings # strings
    /\ prev.verdict = ReturnFalse
    /\ verdict = ReturnFalse
    /\ <<logged.s1, logged.s2>> # <<prev.logged.s1, prev.logged.s2>>

----------------------------------------------------------------------------
(* C15 *)

\* C15: in every run the list is fetched once, on connection1 and ordered by
\* collation1, before any comparison query: no query is issued while nothing
\* is fetched, and from the first query to the return there is exactly one
\* fetch, whose rows are ascending under collation1.
C15_FetchedOnceUnderFirstCollation ==
    /\ fetches = <<>> => calls = <<>>
    /\ pc \in {"idle", "fetch"} => fetches = <<>>
    /\ pc \in {"query1", "query2", "check", "done"} =>
          /\ Len(fetches) = 1
          /\ fetches[1].connection = "connection1"
          /\ fetches[1].collation = collation1
          /\ fetches[1].rows = strings
          /\ \A k \in AdjacentIndices :
                weight[collation1][strings[k]] <= weight[collation1][strings[k + 1]]

\* A run of ("B", "A"), the two collations ordering the rows differently, has
\* returned after one fetch under "B" and at least two queries.
C15_Witness ==
    /\ Returned
    /\ collation1 = "B" /\ collation2 = "A"
    /\ weight["A"] # weight["B"]
    /\ Len(fetches) = 1
    /\ fetches[1].collation = "B"
    /\ Len(calls) >= 2

----------------------------------------------------------------------------
(* C16 *)

\* C16: from the fetch on, the list the scan reads is the list the fetch
\* returned, unchanged, and every comparison query at index k is on the k-th
\* and (k+1)-th rows of the list as returned.
C16_FetchedListUnchanged ==
    fetches # <<>> =>
        /\ strings = fetches[1].rows
        /\ \A n \in DOMAIN calls :
              /\ calls[n].at \in 1..(Len(fetches[1].rows) - 1)
              /\ calls[n].s1 = fetches[1].rows[calls[n].at]
              /\ calls[n].s2 = fetches[1].rows[calls[n].at + 1]

\* A run over three strings has compared both adjacent pairs and returned.
C16_Witness ==
    /\ Returned
    /\ Len(fetches) = 1
    /\ Len(fetches[1].rows) = 3
    /\ \E n \in DOMAIN calls : calls[n].at = 2 /\ calls[n].s2 = fetches[1].rows[3]

----------------------------------------------------------------------------
(* C17 *)

\* C17: a comparison query that raises is the last query of the run: the run
\* has ended with the error raised, no return value and nothing logged, the
\* query is not issued again and no pair after it is compared.
C17_QueryFailureAborts ==
    \A n \in DOMAIN calls :
        calls[n].result = NoResult =>
            /\ n = Len(calls)
            /\ pc = "failed"
            /\ raised = DatabaseError
            /\ verdict = NoVerdict
            /\ logged = NoLog

\* The first query of a run over three strings raised: one query issued, the
\* second pair never compared.
C17_Witness ==
    /\ pc = "failed"
    /\ raised = DatabaseError
    /\ Len(strings) = 3
    /\ Len(calls) = 1
    /\ calls[1].result = NoResult
    /\ verdict = NoVerdict

----------------------------------------------------------------------------
(* C18 *)

\* C18: a run found not equivalent ends by returning False, nothing raised;
\* what it logs is the adjacent pair it compared last, with the row each of
\* the two collations returned for that same pair, and those rows break a
\* requirement.
C18_FalseReturnedWithOffendingPair ==
    verdict = ReturnFalse =>
        /\ Returned
        /\ raised = ""
        /\ \E k \in AdjacentIndices :
              /\ Len(calls) = 2 * k
              /\ logged.s1 = strings[k] /\ logged.s2 = strings[k + 1]
              /\ IssuedOn(QueryA(k), collation1, logged.s1, logged.s2)
              /\ IssuedOn(QueryB(k), collation2, logged.s1, logged.s2)
              /\ logged.result1 = QueryA(k).result
              /\ logged.result2 = QueryB(k).result
              /\ RowsFail(logged.result1, logged.result2)

\* A run returned False at its second pair, the two collations having
\* returned different rows for it.
C18_Witness ==
    /\ Returned
    /\ verdict = ReturnFalse
    /\ raised = ""
    /\ Len(calls) = 4
    /\ logged.s1 = strings[2]
    /\ logged.result1 # logged.result2

----------------------------------------------------------------------------
(* C19 *)

\* C19: for collations that are total preorders, a run returns the same value
\* as the run of the same two collations before it, whichever of the lists
\* ascending under the first collation each of the two fetches returned.
C19_TieOrderIrrelevant ==
    (Returned /\ prev.collation1 = collation1 /\ prev.collation2 = collation2) =>
        verdict = prev.verdict

\* Two runs in a row of the same collations, the two fetches returning the
\* rows the first collation ties in different orders.
C19_Witness ==
    /\ Returned
    /\ prev.collation1 = collation1 /\ prev.collation2 = collation2
    /\ collation1 # collation2
    /\ prev.strings # strings
    /\ verdict = ReturnFalse
    /\ prev.verdict = ReturnFalse

----------------------------------------------------------------------------
(* C20 *)

\* The runs of test_collation on the configuration at position c, in order.
RunsOf(c) == SelectSeq(bench.runs, LAMBDA r : r.config = c)

\* The rows log_benchmark has inserted for the configuration at position c.
RowsOf(c) ==
    SelectSeq(bench.rows,
              LAMBDA row : /\ row.collation = bench.configurations[c].collation
                           /\ row.locale = bench.configurations[c].locale
                           /\ row.data_size = bench.configurations[c].data_size)

\* C20: when performance_benchmark has ended, every configuration has been
\* run iterations + 1 times, the first of these runs being the warm-up and
\* the only one not logged, and has iterations rows in the log.
C20_EachConfigurationRunIterationsPlusOne ==
    bench.pc \in {"closed", "failed"} =>
        \A c \in DOMAIN bench.configurations :
            /\ Len(RunsOf(c)) = bench.iterations + 1
            /\ RunsOf(c)[1].warm_up
            /\ \A n \in 2..Len(RunsOf(c)) : ~RunsOf(c)[n].warm_up
            /\ Len(RowsOf(c)) = bench.iterations

----------------------------------------------------------------------------
(* C21 *)

\* The queries executed whose row has not been fetched.
Outstanding == {n \in DOMAIN calls : calls[n].result = Pending}

\* C21: at most one comparison query is outstanding at any time and it is the
\* one executed last; the queries are executed in the order pair 1 under the
\* first collation, pair 1 under the second, pair 2 under the first, and so
\* on, each executed only when the row of the one before it has been fetched.
C21_StrictlySequential ==
    /\ Cardinality(Outstanding) <= 1
    /\ \A n \in Outstanding : n = Len(calls)
    /\ \A n \in DOMAIN calls :
          /\ calls[n].at = (n + 1) \div 2
          /\ calls[n].collation = IF n % 2 = 1 THEN collation1 ELSE collation2

\* The query of the second pair under the second collation is outstanding,
\* the rows of the three queries before it fetched.
C21_Witness ==
    /\ pc = "fetchone2"
    /\ Len(calls) = 4
    /\ Outstanding = {4}
    /\ calls[3].at = 2 /\ calls[3].result \in Results
    /\ collation1 # collation2

----------------------------------------------------------------------------
(* C22 *)

\* A checker that walks the fetched list from pair k on and, on the answers
\* the database gives, evaluates the agreement check before the monotonicity
\* check: its return value, the pair it stops at and the reason it gives.
RECURSIVE AgreementFirstScan(_)
AgreementFirstScan(k) ==
    IF k > Len(strings) - 1
    THEN [verdict |-> "True", at |-> 0, warning |-> ""]
    ELSE IF AnswerA(k) \notin Results \/ AnswerB(k) \notin Results
    THEN [verdict |-> "unanswered", at |-> k, warning |-> ""]
    ELSE IF AnswerA(k) # AnswerB(k)
    THEN [verdict |-> "False", at |-> k, warning |-> MismatchWarning]
    ELSE IF ~(AnswerB(k)[1] \/ AnswerB(k)[2])
    THEN [verdict |-> "False", at |-> k, warning |-> OrderWarning]
    ELSE AgreementFirstScan(k + 1)

\* A checker that evaluates both checks at once and reports a compound reason.
RECURSIVE BothAtOnceScan(_)
BothAtOnceScan(k) ==
    IF k > Len(strings) - 1
    THEN [verdict |-> "True", at |-> 0, warning |-> {}]
    ELSE IF AnswerA(k) \notin Results \/ AnswerB(k) \notin Results
    THEN [verdict |-> "unanswered", at |-> k, warning |-> {}]
    ELSE LET reasons ==
                 {w \in {OrderWarning, MismatchWarning} :
                     \/ w = OrderWarning /\ ~(AnswerB(k)[1] \/ AnswerB(k)[2])
                     \/ w = MismatchWarning /\ AnswerA(k) # AnswerB(k)}
         IN IF reasons # {}
            THEN [verdict |-> "False", at |-> k, warning |-> reasons]
            ELSE BothAtOnceScan(k + 1)

\* C22: when a run has returned, a checker evaluating the agreement check
\* first, and one evaluating both checks at once, return the same value on
\* the same list and answers and, when that is False, stop at the same pair;
\* the reason they give may be another.
C22_CheckOrderIrrelevant ==
    Returned =>
        /\ AgreementFirstScan(1).verdict = verdict
        /\ BothAtOnceScan(1).verdict = verdict
        /\ verdict = ReturnFalse =>
              /\ AgreementFirstScan(1).at = i
              /\ BothAtOnceScan(1).at = i
              /\ logged.warning \in BothAtOnceScan(1).warning

\* A run returned False at its second pair with the warning of the first
\* check, where the other checker gives the reason of the agreement check.
C22_Witness ==
    /\ Returned
    /\ verdict = ReturnFalse
    /\ i = 2
    /\ logged.warning = OrderWarning
    /\ AgreementFirstScan(1).warning = MismatchWarning
    /\ AgreementFirstScan(1).at = 2
    /\ BothAtOnceScan(1).warning = {OrderWarning, MismatchWarning}

----------------------------------------------------------------------------
(* C23 *)

\* The arguments and locals of validate_collations and what it has sent to
\* the server.
RunVars ==
    <<pc, collation1, collation2, strings, i, result1, result2, verdict, logged,
      calls, prev, raised, fetches>>

\* C23: no step of a run, the fetch and the comparison queries included,
\* changes the rows of sample_strings or of unicode_characters: the tables
\* hold after the run, whether it returned True or False or raised, what
\* they held before it.  Only the functions that fill the tables change
\* them.
C23_TablesOnlyRead ==
    [][(RunVars' # RunVars) =>
          /\ sample_strings' = sample_strings
          /\ unicode_characters' = unicode_characters]_vars

\* A first run raised AssertionError on an empty table; the tables have been
\* filled; the run after it has fetched the sample strings and two characters
\* and returned False, and the two tables still hold the rows fetched.
C23_Witness ==
    /\ Returned
    /\ prev.raised = AssertionError
    /\ verdict = ReturnFalse
    /\ Len(calls) >= 2
    /\ Len(fetches) = 1
    /\ sample_strings = SampleStrings
    /\ Cardinality(unicode_characters) = 2
    /\ {strings[k] : k \in DOMAIN strings} = Corpus

----------------------------------------------------------------------------
(* C24 *)

\* C24: a run of the validate command that has ended has opened two
\* connections and closed each of them exactly once, and nothing is reported
\* before both are closed.
C24_BothConnectionsClosed ==
    /\ command.pc \in {"end", "failed"} =>
          /\ Len(command.opened) = 2
          /\ \A k \in DOMAIN command.opened :
                Cardinality({n \in DOMAIN command.closed :
                                command.closed[n] = command.opened[k].name}) = 1
    /\ (command.pc # "off" /\ command.reported # NoVerdict) =>
          Len(command.closed) = 2

----------------------------------------------------------------------------
(* C25 *)

\* The migration runner is the program run.
MigrateOn == migrate.pc # "off"

\* The positions of the log at which the events of kind op stand.
Events(op) == {n \in DOMAIN migrate.log : migrate.log[n].op = op}

\* Positions m < n of the log belong to the same run of up.
SameRun(m, n) == \A p \in Events("up") : ~(m < p /\ p <= n)

\* The .sql files of the folder.
SqlFiles == {f.name : f \in {g \in migrate.folder : g.suffix = ".sql"}}

\* The names recorded in the migrations table.
Recorded == {migrate.table[n] : n \in DOMAIN migrate.table}

\* C25: within a run of up the scripts are started in ascending order of
\* filename, only for files not recorded before; the row of a migration is
\* inserted after every command of its script and before the script of the
\* next migration is started; and when the loop is over every .sql file of
\* the folder is recorded.
C25_PendingInOrderEachRecorded ==
    MigrateOn =>
        /\ \A m, n \in Events("execute_script") :
              (m < n /\ SameRun(m, n)) =>
                  /\ Precedes(migrate.log[m].file, migrate.log[n].file)
                  /\ \E p \in Events("insert") :
                        m < p /\ p < n /\ migrate.log[p].file = migrate.log[m].file
        /\ \A m \in Events("execute_script") :
              /\ \A p \in Events("insert") :
                    (p < m) => migrate.log[p].file # migrate.log[m].file
              /\ (m < Len(migrate.log)) =>
                    migrate.log[m + 1].op \in {"execute", "failed", "insert"}
        /\ \A p \in Events("insert") :
              /\ \E m \in Events("execute_script") :
                    /\ m < p
                    /\ SameRun(m, p)
                    /\ migrate.log[m].file = migrate.log[p].file
                    /\ \A n \in (m + 1)..(p - 1) : migrate.log[n].op = "execute"
              /\ \A n \in Events("execute") \cup Events("failed") :
                    migrate.log[n].file = migrate.log[p].file => n < p
        /\ (migrate.pc = "loop" /\ migrate.k > Len(migrate.migrations)) =>
              SqlFiles \subseteq Recorded

\* One run of up has applied two migrations made in the same second, the one
\* whose name is the smaller string first.
C25_Witness ==
    /\ MigrateOn
    /\ migrate.pc = "idle"
    /\ migrate.runs = 1
    /\ Len(migrate.table) = 2
    /\ migrate.table[1].timestamp = migrate.table[2].timestamp
    /\ migrate.table[1].slug = "another"
    /\ Cardinality(Events("execute_script")) = 2

----------------------------------------------------------------------------
(* C26 *)

\* C26: no filename is recorded twice, over all runs of up; the script of a
\* file is started a second time only after a run that raised in it, so over
\* runs that all completed it is started at most once; and in a run that
\* finds every .sql file of the folder already recorded no script is started
\* and no row is inserted.
C26_AtMostOnce ==
    MigrateOn =>
        /\ \A m, n \in Events("execute_script") :
              (m < n /\ migrate.log[m].file = migrate.log[n].file) =>
                  \E p \in Events("failed") :
                      m < p /\ p < n /\ migrate.log[p].file = migrate.log[m].file
        /\ (Events("failed") = {}) =>
              \A m, n \in Events("execute_script") :
                  migrate.log[m].file = migrate.log[n].file => m = n
        /\ \A m, n \in DOMAIN migrate.table :
              migrate.table[m] = migrate.table[n] => m = n
        /\ (/\ migrate.pc \in {"loop", "script"}
            /\ SqlFiles \subseteq {migrate.applied_migrations[n] :
                                      n \in DOMAIN migrate.applied_migrations}) =>
              /\ migrate.pc = "loop"
              /\ migrate.log[Len(migrate.log)].op = "up"
              /\ migrate.table = migrate.applied_migrations

\* The second run of up has walked two migrations recorded by the first and
\* ended with nothing executed.
C26_Witness ==
    /\ MigrateOn
    /\ migrate.pc = "idle"
    /\ migrate.runs = 2
    /\ Len(migrate.table) = 2
    /\ SqlFiles = Recorded
    /\ migrate.log[Len(migrate.log)].op = "up"

----------------------------------------------------------------------------
(* C27 *)

\* C27: a command that fails is the last event of its run.  When it has
\* failed the error is raised out of up and the migration of the failing
\* command is not recorded; nothing is executed or inserted after it before
\* up is run again; and the table holds the rows inserted before it.
C27_FailedCommandAborts ==
    MigrateOn =>
        /\ \A n \in Events("failed") :
              IF n = Len(migrate.log)
              THEN /\ migrate.pc = "failed"
                   /\ migrate.raised = DatabaseError
                   /\ migrate.log[n].file \notin Recorded
              ELSE migrate.log[n + 1].op = "up"
        /\ \A p \in Events("insert") :
              \E n \in DOMAIN migrate.table :
                  /\ migrate.table[n] = migrate.log[p].file
                  /\ Cardinality({q \in Events("insert") : q <= p}) = n

\* The second migration of a first run failed at a command, the first
\* migration being recorded.
C27_Witness ==
    /\ MigrateOn
    /\ migrate.pc = "failed"
    /\ migrate.runs = 0
    /\ Len(migrate.table) = 1
    /\ migrate.log[Len(migrate.log)].op = "failed"
    /\ migrate.log[Len(migrate.log)].file # migrate.table[1]

----------------------------------------------------------------------------
(* C28 *)

\* The SQL words of a text, in order: blanks, comments, line breaks and ";"
\* left out.
Words(text) ==
    SelectSeq(text, LAMBDA x : x \notin Comments \cup {Blank, "\n", ";"})

\* The SQL words of the commands executed for the file, in order.
RECURSIVE ExecutedWords(_, _)
ExecutedWords(name, n) ==
    IF n > Len(migrate.log) THEN <<>>
    ELSE IF migrate.log[n].op = "execute" /\ migrate.log[n].file = name
    THEN Words(migrate.log[n].command) \o ExecutedWords(name, n + 1)
    ELSE ExecutedWords(name, n + 1)

\* C28: for every migration a first run of up has recorded so far, the
\* commands executed for its file are BEGIN, each statement of its SQL and COMMIT,
\* each once and in the order of the file.
C28_EveryCommandExecuted ==
    (MigrateOn /\ Cardinality(Events("up")) = 1 /\ migrate.pc \in {"loop", "script"}) =>
        \A name \in Recorded :
            ExecutedWords(name, 1) = Words(FileNamed(migrate.folder, name).text)

----------------
(* C29 *)

\* The entries (s1, s2, result1, result2) for the pairs of positions i <= j
\* of the fetched list on which the two collations answer differently.
AllDifferences ==
    {<<find.strings[m], find.strings[n],
       comparator[find.collation1][<<find.strings[m], find.strings[n]>>],
       comparator[find.collation2][<<find.strings[m], find.strings[n]>>]>> :
        <<m, n>> \in {p \in (DOMAIN find.strings) \X (DOMAIN find.strings) :
                        /\ p[1] <= p[2]
                        /\ comparator[find.collation1]
                                     [<<find.strings[p[1]], find.strings[p[2]]>>]
                             # comparator[find.collation2]
                                         [<<find.strings[p[1]], find.strings[p[2]]>>]}}

\* C29: when find_collation_differences has ended, what it returned is a
\* list holding one entry for every pair of positions i <= j on which the two
\* collations answer differently, and nothing else.
C29_ReturnsAllDifferences ==
    (find.pc = "done") =>
        /\ find.returned.type = "list"
        /\ Len(find.returned.value) = Cardinality(AllDifferences)
        /\ {find.returned.value[n] : n \in DOMAIN find.returned.value}
              = AllDifferences

====
